---- MODULE Spec2Model ----
(***************************************************************************)
(* The User REST API of Routes/User.routes.js over the Mongoose model of   *)
(* models/User.js.  The state is the `users` collection and the response   *)
(* last sent; every route handler is one action.  The handler of           *)
(* PUT /users/classic-update/:id awaits twice (findById, then save), so    *)
(* under concurrent requests it is two steps: ClassicFind and ClassicSave. *)
(***************************************************************************)
EXTENDS Integers, Sequences, FiniteSets, TLC

VARIABLES users, usedIds, deletedById, submitted, inflight, res

vars == <<users, usedIds, deletedById, submitted, inflight, res>>

(* ------------------------------ bounds --------------------------------- *)

\* Concurrent classic-update requests that may be between findById and save.
MaxInflight == 2

\* Longest request array POST /users/create-many is given.
MaxMany == 2

(* ----------------------------- constants ------------------------------- *)

\* age: { min: 0 }
minAge == 0

\* const updatedAge = 20
updatedAge == 20

\* .limit(2)
burritosLimit == 2

foodToAdd == "hamburger"

(* --------------------------- request inputs ---------------------------- *)

\* Well-formed ObjectId strings (24 hex digits), abbreviated.
ObjectIds == {"id1", "id2"}

\* What a client may put in an :id path segment; "zzz" is no ObjectId.
ParamIds == ObjectIds \cup {"zzz"}

Names == {"Alpha", "Zeta"}

\* MongoDB compares strings bytewise: "Alpha" < "Zeta".
NameRank == [n \in Names |-> IF n = "Alpha" THEN 1 ELSE 2]

ParamFoods == {"burritos", "hamburger", "tacos"}

NoFields == <<>>

NameFields == {NoFields} \cup {[name |-> n] : n \in Names}

\* -1 is below the schema's minimum, 0 is the least age it admits.
OtherFields == {NoFields, [age |-> -1], [age |-> 0, favoriteFoods |-> <<"burritos">>]}

Has(r, f) == f \in DOMAIN r

\* JSON request bodies: with and without name, age and favoriteFoods; a body
\* that names its own _id; the body { "$inc": { "age": -1 } } (field inc).
Bodies ==
    {n @@ o : n \in NameFields, o \in OtherFields}
    \cup {[_id |-> i, name |-> "Zeta"] : i \in ObjectIds}
    \cup {[inc |-> -1]}

\* A failure of the storage call (connection lost, driver error) is tried on
\* one well-formed body; it does not depend on the body.
Failures(body) == IF body = [name |-> "Alpha"] THEN BOOLEAN ELSE {FALSE}

\* The elements request arrays of create-many are built from.
ManyBodies == {[name |-> "Alpha"], [name |-> "Zeta", favoriteFoods |-> <<"burritos">>],
               [age |-> 0]}

ManyArrays == UNION {[1..n -> ManyBodies] : n \in 0..MaxMany}

\* The ages a stored record takes in the model ($inc is applied within it).
ModelAges == {-1, 0, updatedAge}

(* ------------------------------ messages ------------------------------- *)

MsgServerError == "Server error"
MsgInvalidId == "Invalid User ID format"
MsgNotFound == "User not found"
MsgNotArray == "Request body must be a non-empty array of user objects."
\* error.message of a Mongoose ValidationError
MsgValidation == "User validation failed"
\* error.message of any other error of a storage call
MsgDriver == "driver error text"

(* ----------------------------- the schema ------------------------------ *)

SchemaPaths == {"_id", "name", "age", "favoriteFoods"}

\* NewUser, but the submitted favoriteFoods are dropped.
NewUserDropsFoods(body, fresh) ==
    [f \in (DOMAIN body \cap {"_id", "name", "age"}) |-> body[f]]
    @@ [_id |-> fresh, favoriteFoods |-> <<>>]

\* new User(body): strict mode keeps the schema's paths only, an array path
\* defaults to [], and _id defaults to a newly generated ObjectId.
NewUser(body, fresh) ==
    [f \in (DOMAIN body \cap SchemaPaths) |-> body[f]]
    @@ [_id |-> fresh, favoriteFoods |-> <<>>]

\* Invalid, but without the minimum of age.
InvalidNoMin(doc) == ~Has(doc, "name")

\* name: { required: true }, age: { min: 0 }
Invalid(doc) ==
    \/ ~Has(doc, "name")
    \/ Has(doc, "age") /\ doc.age < minAge

\* CastError, but every string passes for an ObjectId.
CastErrorNever(id) == FALSE

\* Casting a string to ObjectId throws CastError (kind ObjectId) unless it
\* is well formed.
CastError(id) == id \notin ObjectIds

ById(id) == {d \in users : d._id = id}

ByName(name) == {d \in users : d.name = name}

Includes(foods, x) == \E i \in 1..Len(foods) : foods[i] = x

ByFood(food) == {d \in users : Includes(d.favoriteFoods, food)}

LiveIds == {d._id : d \in users}

Forget(ids) == {s \in submitted : s.id \notin ids}

\* The classic-update requests that may run at once, and the state of one
\* that is not between its findById and its save.
Requests == 1..MaxInflight

Idle == [idle |-> TRUE]

(* ------------------------------- Init ---------------------------------- *)

Init ==
    /\ users = {}
    /\ usedIds = {}
    /\ deletedById = {}
    /\ submitted = {}
    /\ inflight = [r \in Requests |-> Idle]
    /\ res = [route |-> "none", status |-> 0]

(* ------------------------------ handlers ------------------------------- *)

\* GET /users/
GetUsers(fail) ==
    /\ res' = IF fail
              THEN [route |-> "GET /", status |-> 500, message |-> MsgServerError,
                    cause |-> "storage"]
              ELSE [route |-> "GET /", status |-> 200, list |-> users]
    /\ UNCHANGED <<users, usedIds, deletedById, submitted, inflight>>

\* new User(req.body).save(), shared by POST / and POST /create-one: every
\* error is answered 400 with error.message.
SaveNew(route, body, fresh, fail) ==
    LET doc == NewUser(body, fresh) IN
    IF Invalid(doc)
    THEN /\ res' = [route |-> route, body |-> body, status |-> 400, message |-> MsgValidation,
                    cause |-> "validation"]
         /\ UNCHANGED <<users, usedIds, deletedById, submitted, inflight>>
    ELSE IF fail \/ doc._id \in LiveIds
    THEN /\ res' = [route |-> route, body |-> body, status |-> 400, message |-> MsgDriver,
                    cause |-> "storage"]
         /\ UNCHANGED <<users, usedIds, deletedById, submitted, inflight>>
    ELSE /\ users' = users \cup {doc}
         /\ usedIds' = usedIds \cup {doc._id}
         /\ submitted' = submitted \cup {[id |-> doc._id, body |-> body]}
         /\ res' = [route |-> route, body |-> body, status |-> 201, doc |-> doc]
         /\ UNCHANGED <<deletedById, inflight>>

\* The ObjectId the driver generates is one never stored before.
FreshIds == ObjectIds \ usedIds

\* POST /users/
PostUser(body, fresh, fail) == SaveNew("POST /", body, fresh, fail)

\* POST /users/create-one
CreateOne(body, fresh, fail) == SaveNew("POST /create-one", body, fresh, fail)

\* findByIdAndUpdate(id, body, { new: true, runValidators: true }): a plain
\* body is a $set of its fields.  Update validators run on $set and not on
\* $inc; MongoDB refuses an update that would change _id.
Updated(doc, body) ==
    LET set == [f \in (DOMAIN body \cap {"name", "age", "favoriteFoods"}) |-> body[f]]
        old == IF Has(doc, "age") THEN doc.age ELSE 0
    IN  IF Has(body, "inc") THEN [age |-> old + body.inc] @@ set @@ doc
        ELSE set @@ doc

\* PUT /users/:id
PutUser(id, body, fail) ==
    /\ \A d \in ById(id) : Has(Updated(d, body), "age") => Updated(d, body).age \in ModelAges
    /\ IF CastError(id)
       THEN /\ res' = [route |-> "PUT /:id", id |-> id, status |-> 400, message |-> MsgInvalidId,
                       cause |-> "cast"]
            /\ UNCHANGED <<users, usedIds, deletedById, submitted, inflight>>
       ELSE IF Has(body, "age") /\ body.age < minAge
       THEN /\ res' = [route |-> "PUT /:id", id |-> id, status |-> 500, message |-> MsgServerError,
                       cause |-> "validation"]
            /\ UNCHANGED <<users, usedIds, deletedById, submitted, inflight>>
       ELSE IF fail \/ (Has(body, "_id") /\ body._id # id /\ ById(id) # {})
       THEN /\ res' = [route |-> "PUT /:id", id |-> id, status |-> 500, message |-> MsgServerError,
                       cause |-> "storage"]
            /\ UNCHANGED <<users, usedIds, deletedById, submitted, inflight>>
       ELSE IF ById(id) = {}
       THEN /\ res' = [route |-> "PUT /:id", id |-> id, status |-> 404, message |-> MsgNotFound]
            /\ UNCHANGED <<users, usedIds, deletedById, submitted, inflight>>
       ELSE \E d \in ById(id) :
            /\ users' = (users \ {d}) \cup {Updated(d, body)}
            /\ submitted' = Forget({id})
            /\ res' = [route |-> "PUT /:id", id |-> id, status |-> 200, doc |-> Updated(d, body)]
            /\ UNCHANGED <<usedIds, deletedById, inflight>>

\* findByIdAndDelete(id) and findByIdAndRemove(id); the 200 answer carries
\* the deleted record, of which the model keeps the _id.
RemoveById(route, id, fail) ==
    IF CastError(id)
    THEN /\ res' = [route |-> route, id |-> id, status |-> 400, message |-> MsgInvalidId,
                    cause |-> "cast"]
         /\ UNCHANGED <<users, usedIds, deletedById, submitted, inflight>>
    ELSE IF fail
    THEN /\ res' = [route |-> route, id |-> id, status |-> 500, message |-> MsgServerError,
                    cause |-> "storage"]
         /\ UNCHANGED <<users, usedIds, deletedById, submitted, inflight>>
    ELSE IF ById(id) = {}
    THEN /\ res' = [route |-> route, id |-> id, status |-> 404, message |-> MsgNotFound]
         /\ UNCHANGED <<users, usedIds, deletedById, submitted, inflight>>
    ELSE \E d \in ById(id) :
         /\ users' = users \ {d}
         /\ deletedById' = deletedById \cup {id}
         /\ submitted' = Forget({id})
         /\ res' = [route |-> route, id |-> id, status |-> 200]
         /\ UNCHANGED <<usedIds, inflight>>

\* DELETE /users/:id
DeleteUser(id, fail) == RemoveById("DELETE /:id", id, fail)

\* DELETE /users/find-by-id-and-remove/:id
FindByIdAndRemove(id, fail) == RemoveById("DELETE /find-by-id-and-remove/:id", id, fail)

\* Model.create(array): every element is saved on its own; the valid ones
\* are inserted even when another fails, and the first error is thrown.
ManyDocs(arr, fresh) == {NewUser(arr[i], fresh[i]) : i \in 1..Len(arr)}

\* POST /users/create-many
CreateMany(arr, isArray, fresh, fail) ==
    IF ~isArray \/ Len(arr) = 0
    THEN /\ res' = [route |-> "POST /create-many", isArray |-> isArray,
                    len |-> IF isArray THEN Len(arr) ELSE 0, status |-> 400, message |-> MsgNotArray,
                    cause |-> "shape"]
         /\ UNCHANGED <<users, usedIds, deletedById, submitted, inflight>>
    ELSE IF fail
    THEN /\ res' = [route |-> "POST /create-many", isArray |-> isArray,
                    len |-> IF isArray THEN Len(arr) ELSE 0, status |-> 400, message |-> MsgDriver,
                    cause |-> "storage"]
         /\ UNCHANGED <<users, usedIds, deletedById, submitted, inflight>>
    ELSE LET docs == ManyDocs(arr, fresh)
             good == {d \in docs : ~Invalid(d)}
         IN  /\ users' = users \cup good
             /\ usedIds' = usedIds \cup {d._id : d \in good}
             /\ submitted' = submitted \cup
                    {[id |-> fresh[i], body |-> arr[i]] :
                        i \in {j \in 1..Len(arr) : ~Invalid(NewUser(arr[j], fresh[j]))}}
             /\ res' = IF good = docs
                       THEN [route |-> "POST /create-many", isArray |-> isArray,
                    len |-> IF isArray THEN Len(arr) ELSE 0, status |-> 201, list |-> docs]
                       ELSE [route |-> "POST /create-many", isArray |-> isArray,
                    len |-> IF isArray THEN Len(arr) ELSE 0, status |-> 400,
                             message |-> MsgValidation, cause |-> "validation"]
             /\ UNCHANGED <<deletedById, inflight>>

\* GET /users/find-by-name/:name
FindByName(name, fail) ==
    /\ res' = IF fail
              THEN [route |-> "GET /find-by-name/:name", status |-> 500,
                    message |-> MsgServerError, cause |-> "storage"]
              ELSE [route |-> "GET /find-by-name/:name", status |-> 200, name |-> name,
                    list |-> ByName(name)]
    /\ UNCHANGED <<users, usedIds, deletedById, submitted, inflight>>

\* GET /users/find-one-food/:food; findOne answers one of the matches.
FindOneFood(food, fail) ==
    /\ IF fail
       THEN res' = [route |-> "GET /find-one-food/:food", status |-> 500,
                    message |-> MsgServerError, cause |-> "storage"]
       ELSE IF ByFood(food) = {}
       THEN res' = [route |-> "GET /find-one-food/:food", status |-> 404,
                    message |-> "No person found with favorite food"]
       ELSE \E d \in ByFood(food) :
            res' = [route |-> "GET /find-one-food/:food", status |-> 200, doc |-> d]
    /\ UNCHANGED <<users, usedIds, deletedById, submitted, inflight>>

\* GET /users/find-by-id/:id
FindById(id, fail) ==
    /\ IF CastError(id)
       THEN res' = [route |-> "GET /find-by-id/:id", id |-> id, status |-> 400,
                    message |-> MsgInvalidId, cause |-> "cast"]
       ELSE IF fail
       THEN res' = [route |-> "GET /find-by-id/:id", id |-> id, status |-> 500,
                    message |-> MsgServerError, cause |-> "storage"]
       ELSE IF ById(id) = {}
       THEN res' = [route |-> "GET /find-by-id/:id", id |-> id, status |-> 404,
                    message |-> MsgNotFound]
       ELSE \E d \in ById(id) :
            res' = [route |-> "GET /find-by-id/:id", id |-> id, status |-> 200, doc |-> d]
    /\ UNCHANGED <<users, usedIds, deletedById, submitted, inflight>>

\* Edited, but without the includes() test.
EditedPushesAnyway(person) ==
    [person |-> [person EXCEPT !.favoriteFoods = Append(@, foodToAdd)], pushed |-> TRUE]

\* The edit of the classic update: push "hamburger" unless already included.
\* `pushed` is what Mongoose tracks as the document's pending $push.
Edited(person) ==
    IF Includes(person.favoriteFoods, foodToAdd)
    THEN [person |-> person, pushed |-> FALSE]
    ELSE [person |-> [person EXCEPT !.favoriteFoods = Append(@, foodToAdd)],
          pushed |-> TRUE]

\* Saved, but the pending $push is not sent.
SavedNothing(d, edit) == d

\* person.save() of a document loaded by findById: it sends the pending
\* $push to the stored record of that _id, and nothing when none is pending.
Saved(d, edit) ==
    IF edit.pushed THEN [d EXCEPT !.favoriteFoods = Append(@, foodToAdd)] ELSE d

\* PUT /users/classic-update/:id with no other request between its findById
\* and its save.
ClassicUpdate(id, fail) ==
    IF CastError(id)
    THEN /\ res' = [route |-> "PUT /classic-update/:id", id |-> id, status |-> 400,
                    message |-> MsgInvalidId, cause |-> "cast"]
         /\ UNCHANGED <<users, usedIds, deletedById, submitted, inflight>>
    ELSE IF fail
    THEN /\ res' = [route |-> "PUT /classic-update/:id", id |-> id, status |-> 500,
                    message |-> MsgServerError, cause |-> "storage"]
         /\ UNCHANGED <<users, usedIds, deletedById, submitted, inflight>>
    ELSE IF ById(id) = {}
    THEN /\ res' = [route |-> "PUT /classic-update/:id", id |-> id, status |-> 404,
                    message |-> MsgNotFound]
         /\ UNCHANGED <<users, usedIds, deletedById, submitted, inflight>>
    ELSE \E d \in ById(id) :
         /\ users' = (users \ {d}) \cup {Saved(d, Edited(d))}
         /\ submitted' = Forget({id})
         /\ res' = [route |-> "PUT /classic-update/:id", id |-> id, status |-> 200,
                    doc |-> Edited(d).person]
         /\ UNCHANGED <<usedIds, deletedById, inflight>>

\* PUT /users/classic-update/:id up to its first await: findById, the 404,
\* the edit of the loaded document.  Nothing is answered yet when found.
ClassicFind(r, id, fail) ==
    /\ inflight[r] = Idle
    /\ IF CastError(id)
       THEN /\ res' = [route |-> "PUT /classic-update/:id", id |-> id, status |-> 400,
                       message |-> MsgInvalidId, cause |-> "cast"]
            /\ UNCHANGED inflight
       ELSE IF fail
       THEN /\ res' = [route |-> "PUT /classic-update/:id", id |-> id, status |-> 500,
                       message |-> MsgServerError, cause |-> "storage"]
            /\ UNCHANGED inflight
       ELSE IF ById(id) = {}
       THEN /\ res' = [route |-> "PUT /classic-update/:id", id |-> id, status |-> 404,
                       message |-> MsgNotFound]
            /\ UNCHANGED inflight
       ELSE \E d \in ById(id) :
            /\ inflight' = [inflight EXCEPT ![r] = Edited(d)]
            /\ UNCHANGED res
    /\ UNCHANGED <<users, usedIds, deletedById, submitted>>

\* The rest of that handler: person.save() and the answer.  save() updates
\* the record of the document's _id by the pending $push alone (the version
\* key is incremented, not compared), and throws when no record has that _id.
ClassicSave(r, fail) ==
    /\ inflight[r] # Idle
    /\ inflight' = [inflight EXCEPT ![r] = Idle]
    /\ IF fail \/ ById(inflight[r].person._id) = {}
       THEN /\ res' = [route |-> "PUT /classic-update/:id",
                       id |-> inflight[r].person._id, status |-> 500,
                       message |-> MsgServerError, cause |-> "storage"]
            /\ UNCHANGED <<users, usedIds, deletedById, submitted>>
       ELSE \E d \in ById(inflight[r].person._id) :
            /\ users' = (users \ {d}) \cup {Saved(d, inflight[r])}
            /\ submitted' = Forget({d._id})
            /\ res' = [route |-> "PUT /classic-update/:id",
                       id |-> inflight[r].person._id, status |-> 200,
                       doc |-> inflight[r].person]
            /\ UNCHANGED <<usedIds, deletedById>>

\* PUT /users/find-one-and-update/:name; no runValidators here.
FindOneAndUpdate(name, fail) ==
    IF fail
    THEN /\ res' = [route |-> "PUT /find-one-and-update/:name", status |-> 500,
                    message |-> MsgServerError, cause |-> "storage"]
         /\ UNCHANGED <<users, usedIds, deletedById, submitted, inflight>>
    ELSE IF ByName(name) = {}
    THEN /\ res' = [route |-> "PUT /find-one-and-update/:name", status |-> 404,
                    message |-> "No person found with name"]
         /\ UNCHANGED <<users, usedIds, deletedById, submitted, inflight>>
    ELSE \E d \in ByName(name) :
         /\ users' = (users \ {d}) \cup {[age |-> updatedAge] @@ d}
         /\ submitted' = Forget({d._id})
         /\ res' = [route |-> "PUT /find-one-and-update/:name", status |-> 200,
                    doc |-> [age |-> updatedAge] @@ d]
         /\ UNCHANGED <<usedIds, deletedById, inflight>>

\* ManyMatch, but as deleteOne would: one matching record at most.
ManyMatchOne(name) ==
    IF {d \in users : d.name = name} = {} THEN {}
    ELSE {CHOOSE d \in users : d.name = name}

\* The records deleteMany({ name }) removes.
ManyMatch(name) == ByName(name)

\* DELETE /users/delete-many-by-name/:name
DeleteManyByName(name, fail) ==
    IF fail
    THEN /\ res' = [route |-> "DELETE /delete-many-by-name/:name", name |-> name, status |-> 500,
                    message |-> MsgServerError, cause |-> "storage"]
         /\ UNCHANGED <<users, usedIds, deletedById, submitted, inflight>>
    ELSE IF Cardinality(ManyMatch(name)) = 0
    THEN /\ res' = [route |-> "DELETE /delete-many-by-name/:name", name |-> name, status |-> 404,
                    message |-> "No users found with name"]
         /\ UNCHANGED <<users, usedIds, deletedById, submitted, inflight>>
    ELSE /\ users' = users \ ManyMatch(name)
         /\ submitted' = Forget({d._id : d \in ManyMatch(name)})
         /\ res' = [route |-> "DELETE /delete-many-by-name/:name", name |-> name, status |-> 200,
                    deletedCount |-> Cardinality(ManyMatch(name))]
         /\ UNCHANGED <<usedIds, deletedById, inflight>>

\* .sort({ name: 1 }): the orders of S ascending by name; records of equal
\* name come in any order.
SortedByName(S) ==
    {s \in [1..Cardinality(S) -> S] :
        /\ \A i, j \in 1..Cardinality(S) : i # j => s[i] # s[j]
        /\ \A i, j \in 1..Cardinality(S) : i < j => NameRank[s[i].name] <= NameRank[s[j].name]}

\* Limit, but without the cut.
LimitAll(s, n) == s

\* .limit(n)
Limit(s, n) == SubSeq(s, 1, IF Len(s) < n THEN Len(s) ELSE n)

\* .select('-age -__v')
Select(d) == [f \in DOMAIN d \ {"age", "__v"} |-> d[f]]

\* The query chain of search-burritos over a collection.
BurritoQuery(coll) ==
    LET match == {d \in coll : Includes(d.favoriteFoods, "burritos")}
    IN  {[i \in 1..Len(Limit(s, burritosLimit)) |-> Select(s[i])] : s \in SortedByName(match)}

\* GET /users/search-burritos
SearchBurritos(fail) ==
    /\ IF fail
       THEN res' = [route |-> "GET /search-burritos", status |-> 500,
                    message |-> MsgServerError, cause |-> "storage"]
       ELSE \E out \in BurritoQuery(users) :
            res' = [route |-> "GET /search-burritos", status |-> 200, list |-> out]
    /\ UNCHANGED <<users, usedIds, deletedById, submitted, inflight>>

Next ==
    \/ \E fail \in BOOLEAN : GetUsers(fail)
    \/ \E b \in Bodies : \E fail \in Failures(b) :
          \E fresh \in (IF Has(b, "_id") THEN {b._id} ELSE FreshIds) : PostUser(b, fresh, fail)
    \/ \E b \in Bodies : \E fail \in Failures(b) :
          \E fresh \in (IF Has(b, "_id") THEN {b._id} ELSE FreshIds) : CreateOne(b, fresh, fail)
    \/ \E id \in ParamIds, b \in Bodies : \E fail \in Failures(b) : PutUser(id, b, fail)
    \/ \E id \in ParamIds, fail \in BOOLEAN : DeleteUser(id, fail)
    \/ \E id \in ParamIds, fail \in BOOLEAN : FindByIdAndRemove(id, fail)
    \/ \E arr \in ManyArrays : \E isArray \in (IF Len(arr) = 0 THEN BOOLEAN ELSE {TRUE}) :
          \E fail \in (IF Len(arr) = 1 THEN BOOLEAN ELSE {FALSE}) :
          \E fresh \in {f \in [1..Len(arr) -> FreshIds] :
                            \A i, j \in 1..Len(arr) : i # j => f[i] # f[j]} :
             CreateMany(arr, isArray, fresh, fail)
    \/ \E n \in Names, fail \in BOOLEAN : FindByName(n, fail)
    \/ \E f \in ParamFoods, fail \in BOOLEAN : FindOneFood(f, fail)
    \/ \E id \in ParamIds, fail \in BOOLEAN : FindById(id, fail)
    \/ \E id \in ParamIds, fail \in BOOLEAN : ClassicUpdate(id, fail)
    \/ \E n \in Names, fail \in BOOLEAN : FindOneAndUpdate(n, fail)
    \/ \E n \in Names, fail \in BOOLEAN : DeleteManyByName(n, fail)
    \/ \E fail \in BOOLEAN : SearchBurritos(fail)

\* The bodies the records of the concurrent runs are created from.
RaceBodies == {[name |-> "Alpha"], [name |-> "Zeta", favoriteFoods |-> <<"hamburger">>]}

\* Concurrent clients: classic updates interleave at their awaits with each
\* other and with creations and deletions.
NextRace ==
    \/ \E b \in RaceBodies, fresh \in FreshIds : PostUser(b, fresh, FALSE)
    \/ \E r \in Requests, id \in ParamIds, fail \in BOOLEAN : ClassicFind(r, id, fail)
    \/ \E r \in Requests, fail \in BOOLEAN : ClassicSave(r, fail)
    \/ \E id \in ObjectIds : DeleteUser(id, FALSE)

SpecRace == Init /\ [][NextRace]_vars

\* Collections of up to three records, as three creations leave them.
QueryDocs(i) ==
    {[_id |-> i, name |-> n, favoriteFoods |-> f] @@ a :
        n \in Names,
        f \in {<<"burritos">>, <<"tacos">>, <<"tacos", "burritos">>},
        a \in {NoFields, [age |-> 0]}}

QueryChoices(i) == {{}} \cup {{d} : d \in QueryDocs(i)}

QueryCollections ==
    {a \cup b \cup c : a \in QueryChoices("id1"), b \in QueryChoices("id2"),
                       c \in QueryChoices("id3")}

InitQuery ==
    /\ users \in QueryCollections
    /\ usedIds = LiveIds
    /\ deletedById = {}
    /\ submitted = {}
    /\ inflight = [r \in Requests |-> Idle]
    /\ res = [route |-> "none", status |-> 0]

NextQuery == \E fail \in BOOLEAN : SearchBurritos(fail)

SpecQuery == InitQuery /\ [][NextQuery]_vars

Spec == Init /\ [][Next]_vars

(* ------------------------------ properties ----------------------------- *)

CreateRoutes == {"POST /", "POST /create-one"}

ByIdRoutes == {"PUT /:id", "DELETE /:id", "GET /find-by-id/:id",
               "PUT /classic-update/:id", "DELETE /find-by-id-and-remove/:id"}

DeleteByIdRoutes == {"DELETE /:id", "DELETE /find-by-id-and-remove/:id"}

Count(foods, x) == Cardinality({i \in 1..Len(foods) : foods[i] = x})

\* Field f of the fetched record is the submitted one: present in both or
\* in neither, and equal.
SameField(body, doc, f) ==
    /\ Has(body, f) <=> Has(doc, f)
    /\ Has(body, f) => body[f] = doc[f]

\* The ids of the records created and neither updated nor deleted since.
SubmittedIds == {s.id : s \in submitted}

C2_DeletedStaysGone ==
    [][/\ (res'.route \in DeleteByIdRoutes \cup {"GET /find-by-id/:id"}
            /\ res'.status \in {200, 404} /\ res'.id \in deletedById)
            => res'.status = 404
       /\ (res'.route \in DeleteByIdRoutes /\ res'.status = 200)
            => \A d \in users : d._id # res'.id => d \in users']_vars

\* A body lacking name, or with a negative age.
BadBody(b) == ~Has(b, "name") \/ (Has(b, "age") /\ b.age < 0)

\* C3: a create with a body lacking name or with a negative age, and a
\* create-many with an empty array or a non-array body, is answered 400 and
\* leaves the collection as it was.
C3_InvalidCreateRejected ==
    [][/\ (res'.route \in CreateRoutes /\ BadBody(res'.body))
            => (res'.status = 400 /\ users' = users)
       /\ (res'.route = "POST /create-many" /\ (~res'.isArray \/ res'.len = 0))
            => (res'.status = 400 /\ users' = users)]_vars

\* A rejected create of each kind, with a record in the collection.
C3_Witness ==
    /\ res.route = "POST /create-one"
    /\ res.status = 400
    /\ Has(res.body, "age") /\ res.body.age < 0 /\ Has(res.body, "name")
    /\ users # {}

\* C4 as stated: every stored record has a name and, when it has an age, an
\* age >= 0.
C4_StoredRecordsValid ==
    \A d \in users : Has(d, "name") /\ (Has(d, "age") => d.age >= 0)

\* C5: an identifier that is no ObjectId is answered 400 by every endpoint
\* that takes one, and the collection is left as it was.
C5_MalformedIdIs400 ==
    [][(res'.route \in ByIdRoutes /\ res'.id \notin ObjectIds)
          => (res'.status = 400 /\ users' = users)]_vars

\* A malformed identifier was answered while the collection holds a record.
C5_Witness ==
    /\ res.route = "PUT /:id"
    /\ res.id \notin ObjectIds
    /\ res.status = 400
    /\ users # {}

\* C6 as stated: on every endpoint a validation failure is answered 400 with
\* the validation message, and any other failure of the storage call 500
\* with the generic message.
C6_FailuresClassified ==
    Has(res, "cause") =>
        /\ res.cause = "validation" => (res.status = 400 /\ res.message = MsgValidation)
        /\ res.cause = "storage" => (res.status = 500 /\ res.message = MsgServerError)

\* C7: delete-many-by-name on a name n records have answers 200 with their
\* number, removes them and no other record, and find-by-name of n then
\* answers 200 with an empty list; on a name no record has it answers 404
\* and changes nothing.
C7_DeleteManyByName ==
    [][/\ (res'.route = "DELETE /delete-many-by-name/:name" /\ res'.status # 500) =>
            LET n == res'.name
                matched == {d \in users : d.name = n}
            IN  IF matched = {}
                THEN res'.status = 404 /\ users' = users
                ELSE /\ res'.status = 200
                     /\ res'.deletedCount = Cardinality(matched)
                     /\ users' = users \ matched
                     /\ \A d \in users : d.name # n => d \in users'
       /\ (res.route = "DELETE /delete-many-by-name/:name" /\ res.status = 200
            /\ res'.route = "GET /find-by-name/:name" /\ res'.status # 500
            /\ res'.name = res.name)
            => (res'.status = 200 /\ res'.list = {})]_vars

\* Two records of one name were deleted at once.
C7_Witness ==
    /\ res.route = "DELETE /delete-many-by-name/:name"
    /\ res.status = 200
    /\ res.deletedCount = 2

\* C8: search-burritos answers 200 with a list of records that like
\* burritos, ascending by name, of length min(2, their number), the first in
\* that order, none with an age field; the collection is not modified.
C8_SearchBurritos ==
    [][(res'.route = "GET /search-burritos" /\ res'.status # 500) =>
          LET out == res'.list
              likes == {d \in users : \E i \in 1..Len(d.favoriteFoods) :
                                          d.favoriteFoods[i] = "burritos"}
              shown == {d \in likes : \E i \in 1..Len(out) : out[i]._id = d._id}
          IN  /\ res'.status = 200
              /\ users' = users
              /\ \A i \in 1..Len(out) :
                    /\ \E d \in likes : /\ d._id = out[i]._id
                                        /\ d.name = out[i].name
                                        /\ d.favoriteFoods = out[i].favoriteFoods
                    /\ ~Has(out[i], "age")
              /\ \A i, j \in 1..Len(out) : i < j =>
                    /\ NameRank[out[i].name] <= NameRank[out[j].name]
                    /\ out[i]._id # out[j]._id
              /\ Len(out) = (IF Cardinality(likes) < 2 THEN Cardinality(likes) ELSE 2)
              /\ \A d \in likes \ shown : \A e \in shown :
                    NameRank[e.name] <= NameRank[d.name]]_vars

\* Three records like burritos and have an age; two are answered, and the
\* one left out has the greatest name.
C8_Witness ==
    /\ res.route = "GET /search-burritos"
    /\ res.status = 200
    /\ Len(res.list) = 2
    /\ Cardinality({d \in users : Includes(d.favoriteFoods, "burritos") /\ Has(d, "age")}) = 3
    /\ res.list[1].name = "Alpha" /\ res.list[2].name = "Alpha"
    /\ \E d \in users : d.name = "Zeta"

\* C9: a classic update with no request in between its read and its write
\* answers 200; a record that has "hamburger" is left as it is, another gets
\* one "hamburger" appended at the end and is otherwise unchanged; after it
\* the record has "hamburger", so a repetition changes nothing.
C9_ClassicUpdateOnce ==
    [][(res'.route = "PUT /classic-update/:id" /\ res'.status \notin {400, 500}) =>
          IF \A d \in users : d._id # res'.id
          THEN res'.status = 404 /\ users' = users
          ELSE \A d \in users : d._id = res'.id =>
                  LET e == IF Count(d.favoriteFoods, "hamburger") > 0 THEN d
                           ELSE [d EXCEPT !.favoriteFoods = d.favoriteFoods \o <<"hamburger">>]
                  IN  /\ res'.status = 200
                      /\ res'.doc = e
                      /\ users' = (users \ {d}) \cup {e}
                      /\ Count(e.favoriteFoods, "hamburger") = 1]_vars

\* A record that had burritos got its hamburger appended after them.
C9_Witness ==
    /\ res.route = "PUT /classic-update/:id"
    /\ res.status = 200
    /\ res.doc.favoriteFoods = <<"burritos", "hamburger">>
    /\ res.doc \in users

====
